---- MODULE Spec2Model ----
(***************************************************************************)
(* Model of src/App.tsx: the App component of the to-do list.              *)
(*                                                                         *)
(* The component's React state is the five useState cells.  A handler is   *)
(* a closure created by a render: it reads the values that render saw      *)
(* (the record `rendered`), while setX(value) and setX(updater) act on the *)
(* state cell itself.  Render is React's re-render: it captures the cells  *)
(* into new closures and runs the save effect when the tasks cell was set. *)
(* AsyncStorage is a key-value store that serves its requests in the order *)
(* they were issued; a request may fail, which the code catches and logs.  *)
(* An exit transition is its completion callback; the value an animation   *)
(* drives is not followed.  The stored documents are valid JSON.           *)
(* Strings are sequences of one-character strings.                         *)
(***************************************************************************)
EXTENDS Integers, Sequences, FiniteSets, TLC

\* ------------------------------------------------------------------ bounds

\* User events (presses, text changes) in one run.
MaxEvents == 4

\* ------------------------------------------------------------------ values

\* The value of `string | null` state that is null.
Null == <<"null">>

\* Texts the user may type into a title field.
Texts == {<<>>, <<" ">>, <<" ", "b">>}

\* Texts the user may type into the description field.
Descriptions == {<<>>, <<"d">>}

IsSpace(c) == c = " "

RECURSIVE trimStart(_)
trimStart(s) ==
  IF s /= <<>> /\ IsSpace(Head(s)) THEN trimStart(Tail(s)) ELSE s

RECURSIVE trimEnd(_)
trimEnd(s) ==
  IF s /= <<>> /\ IsSpace(s[Len(s)]) THEN trimEnd(SubSeq(s, 1, Len(s) - 1)) ELSE s

\* String.prototype.trim
trim(s) == trimEnd(trimStart(s))

\* A string is truthy when it is not empty.
Truthy(s) == s /= <<>>

Digit(d) == <<"0", "1", "2", "3", "4", "5", "6", "7", "8", "9">>[d + 1]

\* Number.prototype.toString of a non-negative integer
RECURSIVE toString(_)
toString(n) ==
  IF n < 10 THEN <<Digit(n)>> ELSE Append(toString(n \div 10), Digit(n % 10))

\* new Animated.Value(v)
AnimatedValue(v) == [value |-> v]

\* The object addTask builds.
newTask(now, text) ==
  [id |-> toString(now), text |-> text, completed |-> FALSE,
   description |-> <<>>, animationValue |-> AnimatedValue(0)]

\* JSON.stringify(tasks): an Animated.Value serializes to its number.
stringify(ts) ==
  [i \in 1..Len(ts) |->
    [id |-> ts[i].id, text |-> ts[i].text, completed |-> ts[i].completed,
     description |-> ts[i].description,
     animationValue |-> ts[i].animationValue.value]]

\* JSON.parse(storedTasks).map(task => ({...task, animationValue: new Animated.Value(1)}))
parseTasks(js) ==
  [i \in 1..Len(js) |->
    [id |-> js[i].id, text |-> js[i].text, completed |-> js[i].completed,
     description |-> js[i].description,
     animationValue |-> AnimatedValue(1)]]

\* The item under the key 'tasks': absent, or a stored document.
NoItem == [present |-> FALSE, value |-> <<>>]
Item(js) == [present |-> TRUE, value |-> js]

\* Documents an earlier session of the application may have left.
StoredTask(n, text, done, desc, anim) ==
  [id |-> toString(n), text |-> text, completed |-> done,
   description |-> desc, animationValue |-> anim]

EarlierStores ==
  { NoItem,
    Item(<<>>),
    Item(<<StoredTask(1, <<"a">>, TRUE, <<"d">>, 1)>>),
    Item(<<StoredTask(1, <<"a">>, FALSE, <<>>, 1),
           StoredTask(2, <<"c">>, TRUE, <<>>, 0)>>) }

\* The document a session leaves in which two adds read the same Date.now().
DuplicateStores ==
  { Item(<<StoredTask(1, <<"a">>, FALSE, <<>>, 0),
           StoredTask(1, <<"c">>, FALSE, <<>>, 0)>>) }

\* ------------------------------------------------------------------- state

VARIABLES
  task,                    \* useState(''): the text of the "Add a new task" field
  tasks,                   \* useState<Task[]>([])
  editingTaskId,           \* useState<string | null>(null)
  editingTaskText,         \* useState('')
  editingTaskDescription,  \* useState('')
  rendered,                \* the state the last render captured in its closures
  tasksChanged,            \* setTasks was called since the last render
  storageQueue,            \* AsyncStorage requests issued and not yet served
  store,                   \* the item under the key 'tasks'
  storedAtStart,           \* the item under the key 'tasks' when the app started
  loadPc,                  \* where loadTasks is: "await", "resume" or "done"
  storedTasks,             \* loadTasks' local: the result of getItem
  exiting,                 \* exit transitions started by deleteTask, not yet completed
  clock,                   \* the last value of Date.now()
  deleted,                 \* the ids whose exit transition has completed
  errorLog,                \* the messages written with console.error
  events,                  \* the number of user events handled so far
  lastEvent                \* the handler of the last user event

vars ==
  <<task, tasks, editingTaskId, editingTaskText, editingTaskDescription,
    rendered, tasksChanged, storageQueue, store, storedAtStart, loadPc,
    storedTasks, exiting, clock, deleted, errorLog, events, lastEvent>>

\* What a render captures.
State ==
  [task |-> task, tasks |-> tasks, editingTaskId |-> editingTaskId,
   editingTaskText |-> editingTaskText,
   editingTaskDescription |-> editingTaskDescription]

GetItem == [op |-> "getItem", value |-> <<>>]
SetItem(js) == [op |-> "setItem", value |-> js]

\* A save effect that writes the tasks of the render before: what an effect
\* without its [tasks] dependency would capture.
saveTasksStale(queue, ts) == Append(queue, SetItem(stringify(rendered.tasks)))

\* The save effect's body: AsyncStorage.setItem('tasks', JSON.stringify(tasks)).
saveTasks(queue, ts) == Append(queue, SetItem(stringify(ts)))

\* The state after the first render and its two effects: loadTasks has issued
\* its getItem, then saveTasks has issued the setItem of the empty list.  The
\* clock is past the ids of the stored tasks.
Start(stores) ==
  /\ task = <<>>
  /\ tasks = <<>>
  /\ editingTaskId = Null
  /\ editingTaskText = <<>>
  /\ editingTaskDescription = <<>>
  /\ rendered = State
  /\ tasksChanged = FALSE
  /\ storageQueue = saveTasks(<<GetItem>>, <<>>)
  /\ store \in stores
  /\ storedAtStart = store
  /\ loadPc = "await"
  /\ storedTasks = NoItem
  /\ exiting = <<>>
  /\ clock = Len(store.value) + 1
  /\ deleted = {}
  /\ errorLog = {}
  /\ events = 0
  /\ lastEvent = "none"

Init == Start(EarlierStores)

\* ------------------------------------------------------- the state updaters

\* [...tasks, newTask]
appendTask(ts, t) == Append(ts, t)

\* prevTasks.map(task => task.id === taskId ? {...task, completed: !task.completed} : task)
toggled(prevTasks, taskId) ==
  [i \in 1..Len(prevTasks) |->
    IF prevTasks[i].id = taskId
      THEN [prevTasks[i] EXCEPT !.completed = ~@]
      ELSE prevTasks[i]]

\* prevTasks.map(task => task.id === editingTaskId ? {...task, text, description} : task)
updated(prevTasks, taskId, text, description) ==
  [i \in 1..Len(prevTasks) |->
    IF prevTasks[i].id = taskId
      THEN [prevTasks[i] EXCEPT !.text = text, !.description = description]
      ELSE prevTasks[i]]

KeepOthers(t, taskId) == t.id /= taskId

\* prevTasks.filter(task => task.id !== taskId)
removed(prevTasks, taskId) == SelectSeq(prevTasks, LAMBDA t : KeepOthers(t, taskId))

\* tasks.find(task => task.id === taskId) is not undefined
found(ts, taskId) == \E i \in 1..Len(ts) : ts[i].id = taskId

\* ------------------------------------------------------------ what is shown

\* renderItem shows the edit fields, Save and Cancel for the item whose id is
\* editingTaskId, and the text, Edit and X for every other item.
EditShown == \E i \in 1..Len(rendered.tasks) : rendered.tasks[i].id = rendered.editingTaskId

ItemShown(i) ==
  /\ i \in 1..Len(rendered.tasks)
  /\ rendered.tasks[i].id /= rendered.editingTaskId

\* The user event that runs the handler named.
UserEvent(handler) ==
  /\ events < MaxEvents
  /\ events' = events + 1
  /\ lastEvent' = handler

\* ----------------------------------------------------------------- handlers

\* onChangeText={setTask}
setTask(text) ==
  /\ UserEvent("setTask")
  /\ task' = text
  /\ UNCHANGED <<tasks, editingTaskId, editingTaskText, editingTaskDescription,
                 rendered, tasksChanged, storageQueue, store, storedAtStart,
                 loadPc, storedTasks, exiting, clock, deleted, errorLog>>

\* now is what Date.now() returns: the last value, or a later one.
addTask(now) ==
  /\ UserEvent("addTask")
  /\ IF Truthy(trim(rendered.task))
       THEN /\ tasks' = appendTask(rendered.tasks, newTask(now, rendered.task))
            /\ tasksChanged' = TRUE
            /\ task' = <<>>
            /\ clock' = now
       ELSE UNCHANGED <<tasks, tasksChanged, task, clock>>
  /\ UNCHANGED <<editingTaskId, editingTaskText, editingTaskDescription,
                 rendered, storageQueue, store, storedAtStart, loadPc,
                 storedTasks, exiting, deleted, errorLog>>

toggleTaskCompletion(taskId) ==
  /\ UserEvent("toggleTaskCompletion")
  /\ tasks' = toggled(tasks, taskId)
  /\ tasksChanged' = TRUE
  /\ UNCHANGED <<task, editingTaskId, editingTaskText, editingTaskDescription,
                 rendered, storageQueue, store, storedAtStart, loadPc,
                 storedTasks, exiting, clock, deleted, errorLog>>

startEditingTask(taskId, taskText, taskDescription) ==
  /\ UserEvent("startEditingTask")
  /\ editingTaskId' = taskId
  /\ editingTaskText' = taskText
  /\ editingTaskDescription' = taskDescription
  /\ UNCHANGED <<task, tasks, rendered, tasksChanged, storageQueue, store,
                 storedAtStart, loadPc, storedTasks, exiting, clock, deleted, errorLog>>

\* A cancel that forgets to clear the scratch fields.
cancelEditingKeepsScratch ==
  /\ UserEvent("cancelEditing")
  /\ editingTaskId' = Null
  /\ UNCHANGED <<task, tasks, editingTaskText, editingTaskDescription, rendered,
                 tasksChanged, storageQueue, store, storedAtStart, loadPc,
                 storedTasks, exiting, clock, deleted, errorLog>>

cancelEditing ==
  /\ UserEvent("cancelEditing")
  /\ editingTaskId' = Null
  /\ editingTaskText' = <<>>
  /\ editingTaskDescription' = <<>>
  /\ UNCHANGED <<task, tasks, rendered, tasksChanged, storageQueue, store,
                 storedAtStart, loadPc, storedTasks, exiting, clock, deleted, errorLog>>

\* onChangeText={setEditingTaskText}
setEditingTaskText(text) ==
  /\ UserEvent("setEditingTaskText")
  /\ editingTaskText' = text
  /\ UNCHANGED <<task, tasks, editingTaskId, editingTaskDescription, rendered,
                 tasksChanged, storageQueue, store, storedAtStart, loadPc,
                 storedTasks, exiting, clock, deleted, errorLog>>

\* onChangeText={setEditingTaskDescription}
setEditingTaskDescription(text) ==
  /\ UserEvent("setEditingTaskDescription")
  /\ editingTaskDescription' = text
  /\ UNCHANGED <<task, tasks, editingTaskId, editingTaskText, rendered,
                 tasksChanged, storageQueue, store, storedAtStart, loadPc,
                 storedTasks, exiting, clock, deleted, errorLog>>

updateTask ==
  /\ UserEvent("updateTask")
  /\ IF rendered.editingTaskId /= Null /\ Truthy(rendered.editingTaskId)
        /\ Truthy(trim(rendered.editingTaskText))
       THEN /\ tasks' = updated(tasks, rendered.editingTaskId,
                                rendered.editingTaskText,
                                rendered.editingTaskDescription)
            /\ tasksChanged' = TRUE
            /\ editingTaskId' = Null
            /\ editingTaskText' = <<>>
            /\ editingTaskDescription' = <<>>
       ELSE UNCHANGED <<tasks, tasksChanged, editingTaskId, editingTaskText,
                        editingTaskDescription>>
  /\ UNCHANGED <<task, rendered, storageQueue, store, storedAtStart, loadPc,
                 storedTasks, exiting, clock, deleted, errorLog>>

\* deleteTask starts the exit transition; its completion callback removes.
deleteTask(taskId) ==
  /\ UserEvent("deleteTask")
  /\ IF found(rendered.tasks, taskId)
       THEN exiting' = Append(exiting, taskId)
       ELSE UNCHANGED exiting
  /\ UNCHANGED <<task, tasks, editingTaskId, editingTaskText,
                 editingTaskDescription, rendered, tasksChanged, storageQueue,
                 store, storedAtStart, loadPc, storedTasks, clock, deleted, errorLog>>

\* The callback given to start(): the transitions all last 500 ms, so they
\* complete in the order they were started.
exitCompleted ==
  /\ exiting /= <<>>
  /\ tasks' = removed(tasks, Head(exiting))
  /\ tasksChanged' = TRUE
  /\ exiting' = Tail(exiting)
  /\ deleted' = deleted \cup {Head(exiting)}
  /\ UNCHANGED <<task, editingTaskId, editingTaskText, editingTaskDescription,
                 rendered, storageQueue, store, storedAtStart, loadPc,
                 storedTasks, clock, errorLog, events, lastEvent>>

\* ------------------------------------------------------- render and effects

\* A re-render: new closures over the current state; the save effect runs
\* when its dependency, tasks, was set since the last render.
Render ==
  /\ tasksChanged \/ rendered /= State
  /\ rendered' = State
  /\ tasksChanged' = FALSE
  /\ storageQueue' = IF tasksChanged THEN saveTasks(storageQueue, tasks)
                                     ELSE storageQueue
  /\ UNCHANGED <<task, tasks, editingTaskId, editingTaskText,
                 editingTaskDescription, store, storedAtStart, loadPc,
                 storedTasks, exiting, clock, deleted, errorLog, events, lastEvent>>

\* ------------------------------------------------------------- AsyncStorage

\* The oldest request is served, or fails.  A failed getItem ends loadTasks
\* in its catch; a failed setItem ends saveTasks in its catch.
served(queue) == Head(queue)

storageServes ==
  /\ storageQueue /= <<>>
  /\ storageQueue' = Tail(storageQueue)
  /\ LET req == served(storageQueue) IN
       IF req.op = "getItem"
         THEN /\ storedTasks' = store
              /\ loadPc' = "resume"
              /\ UNCHANGED <<store, errorLog>>
         ELSE /\ store' = Item(req.value)
              /\ UNCHANGED <<storedTasks, loadPc, errorLog>>
  /\ UNCHANGED <<task, tasks, editingTaskId, editingTaskText,
                 editingTaskDescription, rendered, tasksChanged, storedAtStart,
                 exiting, clock, deleted, events, lastEvent>>

storageFails ==
  /\ storageQueue /= <<>>
  /\ storageQueue' = Tail(storageQueue)
  /\ LET req == served(storageQueue) IN
       IF req.op = "getItem"
         THEN /\ loadPc' = "done"
              /\ errorLog' = errorLog \cup {"Error loading tasks"}
         ELSE /\ errorLog' = errorLog \cup {"Error saving tasks"}
              /\ UNCHANGED loadPc
  /\ UNCHANGED <<task, tasks, editingTaskId, editingTaskText,
                 editingTaskDescription, rendered, tasksChanged, store,
                 storedAtStart, storedTasks, exiting, clock, deleted, events, lastEvent>>

\* loadTasks after its await: if (storedTasks) setTasks(parsed).
loadTasks ==
  /\ loadPc = "resume"
  /\ loadPc' = "done"
  /\ IF storedTasks.present
       THEN /\ tasks' = parseTasks(storedTasks.value)
            /\ tasksChanged' = TRUE
       ELSE UNCHANGED <<tasks, tasksChanged>>
  /\ UNCHANGED <<task, editingTaskId, editingTaskText, editingTaskDescription,
                 rendered, storageQueue, store, storedAtStart, storedTasks,
                 exiting, clock, deleted, errorLog, events, lastEvent>>

Next ==
  \/ \E text \in Texts : setTask(text)
  \/ \E now \in clock..(clock + 1) : addTask(now)
  \/ \E i \in 1..Len(rendered.tasks) :
       ItemShown(i) /\ toggleTaskCompletion(rendered.tasks[i].id)
  \/ \E i \in 1..Len(rendered.tasks) :
       ItemShown(i) /\ startEditingTask(rendered.tasks[i].id, rendered.tasks[i].text,
                                        rendered.tasks[i].description)
  \/ EditShown /\ cancelEditing
  \/ \E text \in Texts : EditShown /\ setEditingTaskText(text)
  \/ \E text \in Descriptions : EditShown /\ setEditingTaskDescription(text)
  \/ EditShown /\ updateTask
  \/ \E i \in 1..Len(rendered.tasks) :
       ItemShown(i) /\ deleteTask(rendered.tasks[i].id)
  \/ exitCompleted
  \/ Render
  \/ storageServes
  \/ storageFails
  \/ loadTasks

Spec == Init /\ [][Next]_vars

\* A session started on a document with two tasks of one id.
InitDup == Start(DuplicateStores)

SpecDup == InitDup /\ [][Next]_vars

\* ---------------------------------------------------------------- properties

\* ts without its i-th element
RemoveAt(ts, i) == SubSeq(ts, 1, i - 1) \o SubSeq(ts, i + 1, Len(ts))

\* The fields of a task or of a stored task that the specification names.
Fields(ts) ==
  [i \in 1..Len(ts) |->
    [id |-> ts[i].id, text |-> ts[i].text, completed |-> ts[i].completed,
     description |-> ts[i].description]]

\* C1: an add whose title is non-empty after trimming yields the collection
\* it is applied to plus one last element: the tasks present are kept, in
\* order, and the new task has completed = false, the given title and an
\* empty description.
AddAppendsOne ==
  [][\A now \in clock..(clock + 1) :
       (addTask(now) /\ Truthy(trim(rendered.task))) =>
         /\ Len(tasks') = Len(tasks) + 1
         /\ SubSeq(tasks', 1, Len(tasks)) = tasks
         /\ tasks'[Len(tasks')].completed = FALSE
         /\ tasks'[Len(tasks')].text = rendered.task
         /\ tasks'[Len(tasks')].description = <<>>]_vars

\* What the user can observe: the state the component shows, and the log.
Observable ==
  <<task, tasks, editingTaskId, editingTaskText, editingTaskDescription, errorLog>>

\* C2: an add whose title is empty or whitespace-only leaves the collection
\* unchanged and surfaces a validation failure: something the user can
\* observe changes.
EmptyAddFailsVisibly ==
  [][\A now \in clock..(clock + 1) :
       (addTask(now) /\ ~Truthy(trim(rendered.task))) =>
         /\ tasks' = tasks
         /\ Observable' /= Observable]_vars

\* C3: no two tasks of the collection have the same id.
IdsUnique ==
  \A i, j \in 1..Len(tasks) : tasks[i].id = tasks[j].id => i = j

\* C4: the completion of a delete's exit transition removes exactly one
\* task, one with that id, keeping the others in order; when no task has the
\* id the collection is unchanged.
DeleteRemovesOne ==
  [][exitCompleted =>
       IF found(tasks, Head(exiting))
         THEN \E i \in 1..Len(tasks) :
                tasks[i].id = Head(exiting) /\ tasks' = RemoveAt(tasks, i)
         ELSE tasks' = tasks]_vars

\* C5: a commit with a non-empty scratch title replaces the title and the
\* description of the one task with the editing id, in place, changes no
\* other task and exits editing mode; a commit with an empty scratch title
\* changes neither the collection nor the editing mode.
UpdateReplacesOne ==
  [][(EditShown /\ updateTask) =>
       IF Truthy(trim(rendered.editingTaskText))
         THEN /\ editingTaskId' = Null
              /\ IF found(tasks, rendered.editingTaskId)
                   THEN \E i \in 1..Len(tasks) :
                          /\ tasks[i].id = rendered.editingTaskId
                          /\ tasks' = [tasks EXCEPT
                                ![i].text = rendered.editingTaskText,
                                ![i].description = rendered.editingTaskDescription]
                   ELSE tasks' = tasks
         ELSE /\ tasks' = tasks
              /\ editingTaskId' = editingTaskId]_vars

\* C6: a toggle flips the completed flag of exactly one task, one with that
\* id, and changes nothing else; a second toggle restores the collection; on
\* an absent id the collection is unchanged.
ToggleFlipsOne ==
  [][\A k \in 1..Len(rendered.tasks) :
       (ItemShown(k) /\ toggleTaskCompletion(rendered.tasks[k].id)) =>
         LET taskId == rendered.tasks[k].id IN
           /\ toggled(tasks', taskId) = tasks
           /\ IF found(tasks, taskId)
                THEN \E i \in 1..Len(tasks) :
                       /\ tasks[i].id = taskId
                       /\ tasks' = [tasks EXCEPT ![i].completed = ~@]
                ELSE tasks' = tasks]_vars

\* Every storage request has been answered, loadTasks has ended and the
\* last state set has been rendered.
Settled == storageQueue = <<>> /\ loadPc = "done" /\ ~tasksChanged

\* C7: with a stored collection at startup, a successful read and no user
\* event, once the startup read and the save effect's writes have completed
\* the collection in memory and the stored record both hold the tasks that
\* were stored.
StartupRehydrates ==
  (/\ storedAtStart.present
   /\ events = 0
   /\ "Error loading tasks" \notin errorLog
   /\ Settled)
    => /\ Fields(tasks) = Fields(storedAtStart.value)
       /\ store.present
       /\ Fields(store.value) = Fields(storedAtStart.value)

\* C8: once the collection's last change has been rendered and every write
\* has completed without error, the stored record is the serialization of
\* the collection in memory.
StoredIsCurrent ==
  (storageQueue = <<>> /\ ~tasksChanged /\ "Error saving tasks" \notin errorLog)
    => store = Item(stringify(tasks))

\* A collection changed by user events and by a delete has been written.
StoredIsCurrentWitness ==
  /\ storageQueue = <<>> /\ ~tasksChanged /\ "Error saving tasks" \notin errorLog
  /\ events >= 2
  /\ deleted /= {}
  /\ tasks /= <<>>
  /\ store = Item(stringify(tasks))
  /\ store /= storedAtStart

\* C9: once the exit transition of a deleted id has completed, no task of
\* that id is in the collection, whatever add, toggle and edit events are
\* interleaved.
DeletedStayDeleted ==
  \A taskId \in deleted : ~found(tasks, taskId)

\* C10: while editingTaskId is not null a task of that id is in the
\* collection, and while it is null both scratch fields are empty.
EditSessionInvariant ==
  /\ editingTaskId /= Null => found(tasks, editingTaskId)
  /\ editingTaskId = Null => editingTaskText = <<>> /\ editingTaskDescription = <<>>

\* C10, amended: an edit session starts only on an item shown, with that
\* item's text and description as the scratch fields, and a step that ends
\* it empties both scratch fields.
EditSessionSteps ==
  [][/\ (editingTaskId' /= editingTaskId /\ editingTaskId' /= Null) =>
          \E i \in 1..Len(rendered.tasks) :
            /\ ItemShown(i)
            /\ editingTaskId' = rendered.tasks[i].id
            /\ editingTaskText' = rendered.tasks[i].text
            /\ editingTaskDescription' = rendered.tasks[i].description
     /\ (editingTaskId /= Null /\ editingTaskId' = Null) =>
          editingTaskText' = <<>> /\ editingTaskDescription' = <<>>]_vars

\* An edit session whose task has left the collection.
EditSessionOutlivesTask ==
  editingTaskId /= Null /\ ~found(tasks, editingTaskId)

====
